---- MODULE Spec2Model ----
(***************************************************************************)
(* A model of the unpackit library (src/unzipit.go): the magic-number      *)
(* sniffer, the UnpackStream dispatch, the ZIP and TAR extractors and the  *)
(* path sanitizer.  Paths are sequences of one-character strings; the      *)
(* path/filepath functions the code calls are modelled by their algorithm. *)
(***************************************************************************)
EXTENDS Integers, Sequences, FiniteSets, TLC

VARIABLES
    goos,        \* runtime.GOOS of the build
    \* ---- sanitize applied to one name
    sname,       \* the name handed to sanitize
    sout,        \* sanitize(sname)
    sout2,       \* sanitize(sanitize(sname))
    sjoined,     \* filepath.Join(destPath, sanitize(sname))
    spc,         \* position of the sanitize run
    \* ---- magicNumber applied to one reader
    koff,        \* the offset sniffed at
    krd,         \* the bufio.Reader sniffed
    ksniffs,     \* the results of the sniffs so far
    kread,       \* what reading the reader to its end returned
    kpc,         \* position of the sniff run
    \* ---- UnpackStream
    input,       \* the stream handed to UnpackStream
    r,           \* r, the bufio.Reader over the input
    ftype,       \* the tag of the last sniff
    drd,         \* decompressingReader: <<>> or <<reader>>
    decoders,    \* the decoders wrapped around the input, in order
    sniffed,     \* the offsets sniffed at, in order
    called,      \* the extractor calls made: <<>> or <<[fn, rd]>>
    outFile,     \* the fallback file: <<>> or <<[path, data, whole]>>
    uret,        \* the path UnpackStream returned
    uerr,        \* the error UnpackStream returned
    upc,         \* position in UnpackStream
    \* ---- Unzip / Untar
    kind,        \* "zip" or "tar": the extractor running
    entries,     \* the archive's entries, in stored order
    idx,         \* the index of the current entry
    epc,         \* position in the extractor
    dirs,        \* the directories on disk
    files,       \* the files on disk: path -> [body, mode, mtime]
    open,        \* the handles opened and not yet closed
    rootdir,     \* Untar's rootdir
    fp,          \* the path the current entry is extracted to
    eret,        \* the path the extractor returned
    eerr,        \* the error the extractor returned
    log          \* the file-system and archive calls made, in order

sanVars == <<sname, sout, sout2, sjoined, spc>>
sniffVars == <<koff, krd, ksniffs, kread, kpc>>
unpackVars == <<input, r, ftype, drd, decoders, sniffed, called, outFile, uret, uerr, upc>>
extVars == <<kind, entries, idx, epc, dirs, files, open, rootdir, fp, eret, eerr, log>>
vars == <<goos, sanVars, sniffVars, unpackVars, extVars>>

None == <<"none">>

\* ------------------------------------------------------------------ bounds
MaxNameLen == 4

\* ------------------------------------------------------------------ paths
OS == {"linux", "windows"}

Letters == {"a", "b", "c", "d", "e", "f", "g", "h", "i", "j", "k", "l", "m",
            "n", "o", "p", "q", "r", "s", "t", "u", "v", "w", "x", "y", "z"}

\* The characters names are drawn from.
NameChars == {"a", ".", "/", ":", "\\"}

RECURSIVE SeqsUpTo(_, _)
SeqsUpTo(S, n) ==
    IF n = 0 THEN {<<>>}
    ELSE LET shorter == SeqsUpTo(S, n - 1)
         IN shorter \cup {Append(s, c) : s \in {t \in shorter : Len(t) = n - 1}, c \in S}

Names == SeqsUpTo(NameChars, MaxNameLen)

Separator == IF goos = "windows" THEN "\\" ELSE "/"

IsPathSeparator(c) == c = "/" \/ (goos = "windows" /\ c = "\\")

HasPrefix(s, p) == Len(s) >= Len(p) /\ SubSeq(s, 1, Len(p)) = p

Drop(s, n) == SubSeq(s, n + 1, Len(s))

\* path[i] with Go's 0-based index
At(path, i) == path[i + 1]

RECURSIVE uncShareEnd(_, _)
uncShareEnd(path, n) ==
    IF n >= Len(path) \/ IsPathSeparator(At(path, n)) THEN n
    ELSE uncShareEnd(path, n + 1)

RECURSIVE uncScan(_, _)
uncScan(path, n) ==
    IF n >= Len(path) - 1 THEN 0
    ELSE IF IsPathSeparator(At(path, n))
         THEN IF ~IsPathSeparator(At(path, n + 1))
              THEN IF At(path, n + 1) = "." THEN 0 ELSE uncShareEnd(path, n + 1)
              ELSE 0
         ELSE uncScan(path, n + 1)

\* filepath.volumeNameLen: 0 on Unix; a drive letter or a UNC prefix on Windows
volumeNameLen(path) ==
    IF goos # "windows" \/ Len(path) < 2 THEN 0
    ELSE IF At(path, 1) = ":" /\ At(path, 0) \in Letters THEN 2
    ELSE IF /\ Len(path) >= 5
            /\ IsPathSeparator(At(path, 0)) /\ IsPathSeparator(At(path, 1))
            /\ ~IsPathSeparator(At(path, 2)) /\ At(path, 2) # "."
         THEN uncScan(path, 3)
         ELSE 0

RECURSIVE backtrack(_, _, _)
backtrack(out, w, dotdot) ==
    IF w > dotdot /\ ~IsPathSeparator(At(out, w)) THEN backtrack(out, w - 1, dotdot)
    ELSE SubSeq(out, 1, w)

RECURSIVE elementEnd(_, _)
elementEnd(path, ri) ==
    IF ri < Len(path) /\ ~IsPathSeparator(At(path, ri)) THEN elementEnd(path, ri + 1) ELSE ri

\* The loop of filepath.Clean: ri reads path, out is the buffer written so far,
\* dotdot is the index in out where a .. element must stop.
RECURSIVE cleanLoop(_, _, _, _, _)
cleanLoop(path, rooted, ri, out, dotdot) ==
    LET n == Len(path) IN
    IF ri >= n THEN out
    ELSE IF IsPathSeparator(At(path, ri)) THEN cleanLoop(path, rooted, ri + 1, out, dotdot)
    ELSE IF At(path, ri) = "." /\ (ri + 1 = n \/ IsPathSeparator(At(path, ri + 1)))
         THEN cleanLoop(path, rooted, ri + 1, out, dotdot)
    ELSE IF /\ At(path, ri) = "." /\ ri + 1 < n /\ At(path, ri + 1) = "."
            /\ (ri + 2 = n \/ IsPathSeparator(At(path, ri + 2)))
         THEN IF Len(out) > dotdot
              THEN cleanLoop(path, rooted, ri + 2, backtrack(out, Len(out) - 1, dotdot), dotdot)
              ELSE IF ~rooted
                   THEN LET o1 == IF Len(out) > 0 THEN Append(out, Separator) ELSE out
                            o2 == o1 \o <<".", ".">>
                        IN cleanLoop(path, rooted, ri + 2, o2, Len(o2))
                   ELSE cleanLoop(path, rooted, ri + 2, out, dotdot)
    ELSE LET o1 == IF (rooted /\ Len(out) # 1) \/ (~rooted /\ Len(out) # 0)
                   THEN Append(out, Separator) ELSE out
             e  == elementEnd(path, ri)
         IN cleanLoop(path, rooted, e, o1 \o SubSeq(path, ri + 1, e), dotdot)

\* filepath.FromSlash and filepath.ToSlash: the identity unless Separator is \
FromSlash(path) ==
    IF goos = "windows" THEN [i \in 1..Len(path) |-> IF path[i] = "/" THEN "\\" ELSE path[i]]
    ELSE path

ToSlash(path) ==
    IF goos = "windows" THEN [i \in 1..Len(path) |-> IF path[i] = "\\" THEN "/" ELSE path[i]]
    ELSE path

\* filepath.Clean
Clean(originalPath) ==
    LET volLen == volumeNameLen(originalPath)
        path   == Drop(originalPath, volLen)
    IN IF path = <<>>
       THEN IF volLen > 1 /\ At(originalPath, 1) # ":" THEN FromSlash(originalPath)
            ELSE originalPath \o <<".">>
       ELSE LET rooted == IsPathSeparator(At(path, 0))
                out    == IF rooted THEN cleanLoop(path, rooted, 1, <<Separator>>, 1)
                          ELSE cleanLoop(path, rooted, 0, <<>>, 0)
                buf    == IF out = <<>> THEN <<".">> ELSE out
            IN FromSlash(SubSeq(originalPath, 1, volLen) \o buf)

\* filepath.Join of two elements: the non-empty ones joined by Separator, cleaned
Join(a, b) ==
    IF b = <<>> THEN Clean(a)
    ELSE IF a = <<>> THEN Clean(b)
    ELSE Clean(a \o <<Separator>> \o b)

RECURSIVE stripDotDot(_)
stripDotDot(name) ==
    IF HasPrefix(name, <<".", ".", "/">>) THEN stripDotDot(Drop(name, 3)) ELSE name

\* sanitize (src/unzipit.go:418)
sanitize(name) ==
    LET n1 == IF Len(name) > 1 /\ name[2] = ":" /\ goos = "windows" THEN Drop(name, 2) ELSE name
    IN stripDotDot(ToSlash(Clean(n1)))

\* The destination root handed to the extractors: an existing, clean directory.
destPath ==
    IF goos = "windows" THEN <<"\\", "t", "\\", "d">> ELSE <<"/", "t", "/", "d">>

\* p is root itself or lies below it
Within(root, p) ==
    \/ p = root
    \/ HasPrefix(p, Append(root, Separator))

\* ------------------------------------------------------------------ streams
magicZIP  == <<80, 75, 3, 4>>
magicGZ   == <<31, 139>>
magicBZIP == <<66, 90>>
magicTAR  == <<117, 115, 116, 97, 114>>
magicXZ   == <<253, 55, 122, 88, 90, 0>>

\* m followed by zero bytes, six bytes in all
Pad6(m) == [i \in 1..6 |-> IF i <= Len(m) THEN m[i] ELSE 0]

\* m with its last byte changed
Spoil(m) == [i \in 1..Len(m) |-> IF i = Len(m) THEN 1 ELSE m[i]]

Magics == {magicZIP, magicGZ, magicBZIP, magicTAR, magicXZ}

\* The six-byte windows a stream carries at offsets 0 and 257: every signature,
\* every signature with its last byte wrong, and six zero bytes.
Windows == {Pad6(m) : m \in Magics} \cup {Pad6(Spoil(m)) : m \in Magics} \cup {Pad6(<<>>)}

TarWindows == {Pad6(magicTAR), Pad6(magicZIP), Pad6(magicGZ), Pad6(<<>>)}

\* lengths around the two peek windows (offset + 6 is 6 and 263)
Lens == {0, 5, 6, 262, 263, 600}

Compressed(w) == \E m \in {magicGZ, magicBZIP, magicXZ} : SubSeq(w, 1, Len(m)) = m

\* A stream: its length, the bytes at 0..5 and at 257..262 (every other byte is
\* 0), whether reading it fails (bad), and, for a compressed stream, whether its
\* header decodes (hdrok) and the stream it decodes to (inner).
InnerStreams ==
    [len : {5, 262, 263, 600}, w0 : {Pad6(<<>>), Pad6(magicGZ), Pad6(magicZIP)},
     w257 : TarWindows, bad : BOOLEAN, hdrok : {FALSE}, inner : {<<>>}]

Streams ==
    {s \in [len : Lens, w0 : Windows, w257 : TarWindows, bad : {FALSE},
            hdrok : BOOLEAN, inner : {<<>>} \cup {<<i>> : i \in InnerStreams}] :
        IF Compressed(s.w0) /\ s.len >= 6
        THEN s.inner # <<>> /\ (s.hdrok => s.len >= 262)
        ELSE s.inner = <<>> /\ ~s.hdrok}

BadStream == [len |-> 0, w0 |-> Pad6(<<>>), w257 |-> Pad6(<<>>), bad |-> TRUE,
              hdrok |-> FALSE, inner |-> <<>>]

\* the stream a decoder over s yields
Decoded(s) == IF s.inner = <<>> THEN BadStream ELSE s.inner[1]

ByteAt(s, i) ==
    IF i < 6 THEN s.w0[i + 1]
    ELSE IF i >= 257 /\ i < 263 THEN s.w257[i - 256]
    ELSE 0

\* bufio.NewReader
NewReader(s) == [src |-> s, pos |-> 0]

\* bufio.Reader.Peek: the next n bytes without advancing, or the read error
Peek(rd, n) ==
    IF rd.src.bad THEN [bytes |-> <<>>, err |-> "corrupt"]
    ELSE IF rd.src.len - rd.pos < n THEN [bytes |-> <<>>, err |-> "EOF"]
    ELSE [bytes |-> [i \in 1..n |-> ByteAt(rd.src, rd.pos + i - 1)], err |-> "nil"]

\* the tag of a six-byte window (src/unzipit.go:53-73)
tagOf(magic) ==
    IF SubSeq(magic, 1, 5) = magicTAR THEN "tar"
    ELSE IF SubSeq(magic, 1, 4) = magicZIP THEN "zip"
    ELSE IF SubSeq(magic, 1, 2) = magicGZ THEN "gzip"
    ELSE IF SubSeq(magic, 1, 2) = magicBZIP THEN "bzip"
    ELSE IF magic = magicXZ THEN "xz"
    ELSE ""

\* magicNumber read with Read instead of Peek: the reader moves past the window
magicNumberReading(reader, offset) ==
    LET pk == Peek(reader, offset + 6) IN
    IF pk.err # "nil" THEN [ftype |-> "", err |-> pk.err, rd |-> reader]
    ELSE [ftype |-> tagOf(SubSeq(pk.bytes, offset + 1, offset + 6)), err |-> "nil",
          rd |-> [reader EXCEPT !.pos = @ + offset + 6]]

\* magicNumber that compares the first bytes peeked, whatever the offset
magicNumberAtZero(reader, offset) ==
    LET pk == Peek(reader, offset + 6) IN
    IF pk.err # "nil" THEN [ftype |-> "", err |-> pk.err, rd |-> reader]
    ELSE [ftype |-> tagOf(SubSeq(pk.bytes, 1, 6)), err |-> "nil", rd |-> reader]

\* magicNumber: the tag and the error it returns, and the reader after the call
magicNumber(reader, offset) ==
    LET pk == Peek(reader, offset + 6) IN
    IF pk.err # "nil" THEN [ftype |-> "", err |-> pk.err, rd |-> reader]
    ELSE [ftype |-> tagOf(SubSeq(pk.bytes, offset + 1, offset + 6)), err |-> "nil",
          rd |-> reader]

\* ------------------------------------------------------------------ sniff run
\* one call of magicNumber(krd, koff)
Sniff ==
    /\ kpc \in {"start", "sniffed"}
    /\ LET res == magicNumber(krd[1], koff) IN
         /\ krd' = <<res.rd>>
         /\ ksniffs' = Append(ksniffs, [ftype |-> res.ftype, err |-> res.err])
    /\ kpc' = IF kpc = "start" THEN "sniffed" ELSE "resniffed"
    /\ UNCHANGED <<koff, kread>>
    /\ UNCHANGED <<goos, sanVars, unpackVars, extVars>>

\* the caller reads the reader to its end (ioutil.ReadAll, io.Copy)
ReadRest ==
    /\ kpc \in {"sniffed", "resniffed"}
    /\ kread' = <<[src |-> krd[1].src, from |-> krd[1].pos]>>
    /\ krd' = <<[krd[1] EXCEPT !.pos = krd[1].src.len]>>
    /\ kpc' = "read"
    /\ UNCHANGED <<koff, ksniffs>>
    /\ UNCHANGED <<goos, sanVars, unpackVars, extVars>>

SniffNext == Sniff \/ ReadRest

\* ------------------------------------------------------------------ UnpackStream
\* return path, err
UReturn(path, err) ==
    /\ uret' = path /\ uerr' = err /\ upc' = "done"

\* path.Base
RECURSIVE stripTrailingSlashes(_)
stripTrailingSlashes(path) ==
    IF Len(path) > 0 /\ path[Len(path)] = "/"
    THEN stripTrailingSlashes(SubSeq(path, 1, Len(path) - 1)) ELSE path

RECURSIVE afterLastSlash(_, _)
afterLastSlash(path, i) ==
    IF i = 0 THEN path
    ELSE IF path[i] = "/" THEN Drop(path, i) ELSE afterLastSlash(path, i - 1)

Base(path) ==
    IF path = <<>> THEN <<".">>
    ELSE LET p == stripTrailingSlashes(path) IN
         IF p = <<>> THEN <<"/">> ELSE afterLastSlash(p, Len(p))

unknownPack == <<"u", "n", "k", "n", "o", "w", "n", "-", "p", "a", "c", "k">>

\* ftype, err := magicNumber(r, 0)
U_Sniff0 ==
    /\ upc = "start"
    /\ LET res == magicNumber(r[1], 0) IN
         /\ r' = <<res.rd>>
         /\ sniffed' = Append(sniffed, [offset |-> 0, ftype |-> res.ftype, err |-> res.err,
                                        src |-> r[1].src])
         /\ IF res.err # "nil"
            THEN UReturn(<<>>, res.err) /\ UNCHANGED ftype
            ELSE ftype' = res.ftype /\ upc' = "switch" /\ UNCHANGED <<uret, uerr>>
    /\ UNCHANGED <<input, drd, decoders, called, outFile>>
    /\ UNCHANGED <<goos, sanVars, sniffVars, extVars>>

\* case "gzip" and case "xz": GunzipStream, UnxzStream read the header
U_Decoder(tag) ==
    /\ upc = "switch" /\ ftype = tag
    /\ IF ~r[1].src.hdrok
       THEN UReturn(<<>>, "header") /\ UNCHANGED <<drd, decoders>>
       ELSE /\ drd' = <<NewReader(Decoded(r[1].src))>>
            /\ decoders' = Append(decoders, tag)
            /\ upc' = "sniff257" /\ UNCHANGED <<uret, uerr>>
    /\ UNCHANGED <<input, r, ftype, sniffed, called, outFile>>
    /\ UNCHANGED <<goos, sanVars, sniffVars, extVars>>

U_Gunzip == U_Decoder("gzip")

U_Unxz == U_Decoder("xz")

\* case "bzip": Bunzip2Stream never fails; a bad header shows at the first read
U_Bunzip2 ==
    /\ upc = "switch" /\ ftype = "bzip"
    /\ drd' = <<NewReader(IF r[1].src.hdrok THEN Decoded(r[1].src) ELSE BadStream)>>
    /\ decoders' = Append(decoders, "bzip")
    /\ upc' = "sniff257"
    /\ UNCHANGED <<input, r, ftype, sniffed, called, outFile, uret, uerr>>
    /\ UNCHANGED <<goos, sanVars, sniffVars, extVars>>

\* case "zip": return UnzipStream(r, destPath); what the extractor does is
\* modelled by the ZIP extractor below, here it succeeds or fails
U_Unzip ==
    /\ upc = "switch" /\ ftype = "zip"
    /\ called' = Append(called, [fn |-> "UnzipStream", rd |-> r[1]])
    /\ \E ok \in BOOLEAN :
         IF ok THEN UReturn(destPath, "nil") ELSE UReturn(<<>>, "extract")
    /\ UNCHANGED <<input, r, ftype, drd, decoders, sniffed, outFile>>
    /\ UNCHANGED <<goos, sanVars, sniffVars, extVars>>

\* default: decompressingReader = r
U_Default ==
    /\ upc = "switch" /\ ftype \notin {"gzip", "xz", "bzip", "zip"}
    /\ drd' = r
    /\ upc' = "sniff257"
    /\ UNCHANGED <<input, r, ftype, decoders, sniffed, called, outFile, uret, uerr>>
    /\ UNCHANGED <<goos, sanVars, sniffVars, extVars>>

\* ftype, err = magicNumber(decompressingReader, 257)
U_Sniff257 ==
    /\ upc = "sniff257"
    /\ LET res == magicNumber(drd[1], 257) IN
         /\ drd' = <<res.rd>>
         /\ sniffed' = Append(sniffed, [offset |-> 257, ftype |-> res.ftype, err |-> res.err,
                                        src |-> drd[1].src])
         /\ IF res.err # "nil"
            THEN UReturn(<<>>, res.err) /\ UNCHANGED ftype
            ELSE ftype' = res.ftype /\ upc' = "tarcheck" /\ UNCHANGED <<uret, uerr>>
    /\ UNCHANGED <<input, r, decoders, called, outFile>>
    /\ UNCHANGED <<goos, sanVars, sniffVars, extVars>>

\* if ftype == "tar" { return Untar(decompressingReader, destPath) }; what the
\* extractor does is modelled by the TAR extractor below
U_Untar ==
    /\ upc = "tarcheck" /\ ftype = "tar"
    /\ called' = Append(called, [fn |-> "Untar", rd |-> drd[1]])
    /\ \E ok \in BOOLEAN :
         IF ok THEN UReturn(destPath, "nil") ELSE UReturn(destPath, "extract")
    /\ UNCHANGED <<input, r, ftype, drd, decoders, sniffed, outFile>>
    /\ UNCHANGED <<goos, sanVars, sniffVars, extVars>>

\* destFile, err := os.Create(destRawFile)
U_Create ==
    /\ upc = "tarcheck" /\ ftype # "tar"
    /\ \E ok \in BOOLEAN :
         IF ok
         THEN /\ outFile' = <<[path |-> Join(destPath, sanitize(Base(unknownPack))),
                               data |-> <<>>, whole |-> FALSE]>>
              /\ upc' = "copy" /\ UNCHANGED <<uret, uerr>>
         ELSE UReturn(<<>>, "io") /\ UNCHANGED outFile
    /\ UNCHANGED <<input, r, ftype, drd, decoders, sniffed, called>>
    /\ UNCHANGED <<goos, sanVars, sniffVars, extVars>>

\* io.Copy(destFile, decompressingReader), then return destPath, nil
U_Copy ==
    /\ upc = "copy"
    /\ \E ok \in BOOLEAN :
         IF ok
         THEN /\ outFile' = <<[outFile[1] EXCEPT
                                 !.data = <<[src |-> drd[1].src, from |-> drd[1].pos]>>,
                                 !.whole = TRUE]>>
              /\ drd' = <<[drd[1] EXCEPT !.pos = drd[1].src.len]>>
              /\ UReturn(destPath, "nil")
         ELSE UReturn(<<>>, "io") /\ UNCHANGED <<outFile, drd>>
    /\ UNCHANGED <<input, r, ftype, decoders, sniffed, called>>
    /\ UNCHANGED <<goos, sanVars, sniffVars, extVars>>

UnpackNext ==
    \/ U_Sniff0 \/ U_Gunzip \/ U_Unxz \/ U_Bunzip2 \/ U_Unzip \/ U_Default
    \/ U_Sniff257 \/ U_Untar \/ U_Create \/ U_Copy

\* ------------------------------------------------------------------ file system
RECURSIVE lastSeparator(_, _)
lastSeparator(path, i) ==
    IF i = 0 THEN 0
    ELSE IF IsPathSeparator(path[i]) THEN i ELSE lastSeparator(path, i - 1)

\* filepath.Split: the directory part, up to and including the last separator
SplitDir(path) == SubSeq(path, 1, lastSeparator(path, Len(path)))

\* filepath.Dir
Dir(path) == Clean(SplitDir(path))

\* a clean absolute path, its parent, ..., the root
AncestorsAndSelf(p) ==
    {Clean(SubSeq(p, 1, k)) :
        k \in {j \in 1..Len(p) : \/ j = Len(p)
                                 \/ IsPathSeparator(p[j + 1])
                                 \/ (j = 1 /\ IsPathSeparator(p[1]))}}

\* the directories that exist before the call: the destination root and above
InitialDirs == AncestorsAndSelf(destPath)

\* os.MkdirAll(p) cannot succeed: p or a directory above it is a file
MkdirAllMustFail(p) == \E a \in AncestorsAndSelf(Clean(p)) : a \in DOMAIN files

\* the directories after a successful os.MkdirAll(p)
MkdirAll(p) == dirs \cup AncestorsAndSelf(Clean(p))

\* os.Create(p) cannot succeed: p is a directory or its parent is no directory
CreateMustFail(p) == p \in dirs \/ Dir(p) \notin dirs

\* whether a file-system call succeeds: never when it cannot, else either way
Outcomes(mustFail) == IF mustFail THEN {FALSE} ELSE BOOLEAN

NewFile == [body |-> "empty", mode |-> "default", mtime |-> "now"]

\* ------------------------------------------------------------------ archives
MaxEntries == 2

paxGlobalHeader ==
    <<"p", "a", "x", "_", "g", "l", "o", "b", "a", "l", "_", "h", "e", "a", "d", "e", "r">>

EntryNames ==
    { <<".">>, <<"a">>, <<"a", "/", "f">>, <<"b">>, <<".", ".", "/", "x">>, <<".", ".">>,
      paxGlobalHeader }

\* An entry descriptor: the declared name and the directory flag.  Every
\* regular entry carries a non-empty payload.
Entries == [name : EntryNames, isDir : BOOLEAN]

Archives == SeqsUpTo(Entries, MaxEntries)

Event(op, ok) == [e |-> idx, op |-> op, ok |-> ok]

\* the deferred Close calls of unzipFile and untarFile run only on a nil return
closeDeferredOnSuccess(err) == IF err = "nil" THEN {} ELSE open

\* the handles left open once the deferred Close calls of unzipFile
\* (src/unzipit.go:291, 315) and untarFile (src/unzipit.go:396) have run
closeDeferred(err) == {}

\* an error of the current entry is dropped and the loop goes on
entryFailedContinue(err) ==
    /\ open' = closeDeferred(err)
    /\ eerr' = err
    /\ eret' = eret
    /\ epc' = "next"
    /\ idx' = idx + 1

\* unzipFile / untarFile return err # nil and the caller returns it:
\* unpackZip returns "", err; Untar returns rootdir, err
entryFailed(err) ==
    /\ open' = closeDeferred(err)
    /\ eerr' = err
    /\ eret' = IF kind = "zip" THEN <<>> ELSE rootdir'
    /\ epc' = "done"
    /\ idx' = idx

\* unzipFile / untarFile return nil: on to the next entry
entryDone ==
    /\ open' = closeDeferred("nil")
    /\ epc' = "next"
    /\ idx' = idx + 1
    /\ UNCHANGED <<eret, eerr>>

OtherFrame == UNCHANGED <<goos, sanVars, sniffVars, unpackVars>>

\* ------------------------------------------------------------------ ZIP extractor
\* UnzipStream / Unzip up to zip.NewReader
Unzip_NewReader ==
    /\ kind = "zip" /\ epc = "start"
    /\ \E ok \in BOOLEAN :
         IF ok THEN epc' = "next" /\ UNCHANGED <<eret, eerr>>
         ELSE epc' = "done" /\ eret' = <<>> /\ eerr' = "read"
    /\ UNCHANGED <<kind, entries, idx, dirs, files, open, rootdir, fp, log>>
    /\ OtherFrame

\* unpackZip: the range over zr.File is exhausted
unpackZip_Return ==
    /\ kind = "zip" /\ epc = "next" /\ idx > Len(entries)
    /\ epc' = "done" /\ eret' = destPath /\ eerr' = "nil"
    /\ UNCHANGED <<kind, entries, idx, dirs, files, open, rootdir, fp, log>>
    /\ OtherFrame

\* unzipFile, directory entry: os.MkdirAll(filepath.Join(destPath, f.Name))
unzipFile_Dir ==
    /\ kind = "zip" /\ epc = "next" /\ idx <= Len(entries) /\ entries[idx].isDir
    /\ LET p == Join(destPath, entries[idx].name) IN
       \E ok \in Outcomes(MkdirAllMustFail(p)) :
         /\ fp' = p
         /\ log' = Append(log, Event("mkdir", ok))
         /\ UNCHANGED rootdir
         /\ IF ok THEN dirs' = MkdirAll(p) /\ entryDone
            ELSE UNCHANGED dirs /\ entryFailed("mkdir")
    /\ UNCHANGED <<kind, entries, files>>
    /\ OtherFrame

\* rc, err := f.Open()
unzipFile_Open ==
    /\ kind = "zip" /\ epc = "next" /\ idx <= Len(entries) /\ ~entries[idx].isDir
    /\ \E ok \in BOOLEAN :
         /\ log' = Append(log, Event("open", ok))
         /\ UNCHANGED rootdir
         /\ IF ok THEN /\ open' = open \cup {[e |-> idx, h |-> "rc"]}
                       /\ epc' = "mkparent"
                       /\ UNCHANGED <<idx, eret, eerr>>
            ELSE entryFailed("open")
    /\ UNCHANGED <<kind, entries, dirs, files, fp>>
    /\ OtherFrame

\* destPath = Join(destPath, sanitize(f.Name)); Lstat(fileDir), MkdirAll(fileDir)
unzipFile_MkdirAll ==
    /\ kind = "zip" /\ epc = "mkparent"
    /\ LET p == Join(destPath, sanitize(entries[idx].name))
           fileDir == Dir(p)
       IN /\ fp' = p
          /\ UNCHANGED rootdir
          /\ IF fileDir \in dirs \/ fileDir \in DOMAIN files
             THEN /\ log' = Append(log, Event("lstat", TRUE))
                  /\ epc' = "create"
                  /\ UNCHANGED <<dirs, open, idx, eret, eerr>>
             ELSE \E ok \in Outcomes(MkdirAllMustFail(fileDir)) :
                    /\ log' = Append(log, Event("mkdir", ok))
                    /\ IF ok THEN /\ dirs' = MkdirAll(fileDir)
                                  /\ epc' = "create"
                                  /\ UNCHANGED <<open, idx, eret, eerr>>
                       ELSE UNCHANGED dirs /\ entryFailed("mkdir")
    /\ UNCHANGED <<kind, entries, files>>
    /\ OtherFrame

\* file, err := os.Create(destPath)
unzipFile_Create ==
    /\ kind = "zip" /\ epc = "create"
    /\ \E ok \in Outcomes(CreateMustFail(fp)) :
         /\ log' = Append(log, Event("create", ok))
         /\ UNCHANGED rootdir
         /\ IF ok THEN /\ files' = (fp :> NewFile) @@ files
                       /\ open' = open \cup {[e |-> idx, h |-> "file"]}
                       /\ epc' = "chmod"
                       /\ UNCHANGED <<idx, eret, eerr>>
            ELSE UNCHANGED files /\ entryFailed("create")
    /\ UNCHANGED <<kind, entries, dirs, fp>>
    /\ OtherFrame

\* file.Chmod(f.Mode()): a failure is logged
unzipFile_Chmod ==
    /\ kind = "zip" /\ epc = "chmod"
    /\ \E ok \in BOOLEAN :
         /\ log' = Append(log, Event("chmod", ok))
         /\ files' = IF ok THEN [files EXCEPT ![fp].mode = "entry"] ELSE files
    /\ epc' = "chtimes"
    /\ UNCHANGED <<kind, entries, idx, dirs, open, rootdir, fp, eret, eerr>>
    /\ OtherFrame

\* os.Chtimes(file.Name(), time.Now(), f.ModTime()): a failure is logged
unzipFile_Chtimes ==
    /\ kind = "zip" /\ epc = "chtimes"
    /\ \E ok \in BOOLEAN :
         /\ log' = Append(log, Event("chtimes", ok))
         /\ files' = IF ok THEN [files EXCEPT ![fp].mtime = "entry"] ELSE files
    /\ epc' = "copy"
    /\ UNCHANGED <<kind, entries, idx, dirs, open, rootdir, fp, eret, eerr>>
    /\ OtherFrame

\* io.CopyN(file, rc, size), then return: writing the payload sets the
\* file's modification time to the time of the write
unzipFile_CopyN ==
    /\ kind = "zip" /\ epc = "copy"
    /\ \E ok \in BOOLEAN :
         /\ log' = Append(log, Event("copy", ok))
         /\ UNCHANGED rootdir
         /\ files' = [files EXCEPT ![fp].body = IF ok THEN "full" ELSE "partial",
                                   ![fp].mtime = "now"]
         /\ IF ok THEN entryDone ELSE entryFailed("copy")
    /\ UNCHANGED <<kind, entries, dirs, fp>>
    /\ OtherFrame

\* ------------------------------------------------------------------ TAR extractor
\* os.MkdirAll(destPath, 0740); rootdir := destPath
Untar_MkdirAll ==
    /\ kind = "tar" /\ epc = "start"
    /\ \E ok \in Outcomes(MkdirAllMustFail(destPath)) :
         IF ok THEN /\ dirs' = MkdirAll(destPath)
                    /\ rootdir' = destPath
                    /\ epc' = "next" /\ UNCHANGED <<eret, eerr>>
         ELSE /\ epc' = "done" /\ eret' = <<>> /\ eerr' = "mkdir"
              /\ UNCHANGED <<dirs, rootdir>>
    /\ UNCHANGED <<kind, entries, idx, files, open, fp, log>>
    /\ OtherFrame

\* hdr, err := tr.Next() at the end of the archive: return rootdir, nil
Untar_Return ==
    /\ kind = "tar" /\ epc = "next" /\ idx > Len(entries)
    /\ epc' = "done" /\ eret' = rootdir /\ eerr' = "nil"
    /\ UNCHANGED <<kind, entries, idx, dirs, files, open, rootdir, fp, log>>
    /\ OtherFrame

\* hdr, err := tr.Next(); the pax_global_header skip; fp := Join(destPath, sanitize(hdr.Name))
Untar_Next ==
    /\ kind = "tar" /\ epc = "next" /\ idx <= Len(entries)
    /\ \E ok \in BOOLEAN :
         /\ log' = Append(log, Event("next", ok))
         /\ IF ~ok THEN UNCHANGED <<rootdir, fp>> /\ entryFailed("header")
            ELSE IF entries[idx].name = paxGlobalHeader
                 THEN /\ idx' = idx + 1
                      /\ UNCHANGED <<epc, fp, open, rootdir, eret, eerr>>
                 ELSE /\ fp' = Join(destPath, sanitize(entries[idx].name))
                      /\ epc' = IF entries[idx].isDir THEN "tdir" ELSE "mkparent"
                      /\ UNCHANGED <<idx, open, rootdir, eret, eerr>>
    /\ UNCHANGED <<kind, entries, dirs, files>>
    /\ OtherFrame

\* rootdir is set to every directory entry's path: the last one wins
rootdirLastWins == fp

\* if rootdir == destPath { rootdir = fp }
rootdirAfterDir == IF rootdir = destPath THEN fp ELSE rootdir

\* directory entry: the rootdir update, then os.MkdirAll(fp, hdr.Mode)
Untar_Dir ==
    /\ kind = "tar" /\ epc = "tdir"
    /\ rootdir' = rootdirAfterDir
    /\ \E ok \in Outcomes(MkdirAllMustFail(fp)) :
         /\ log' = Append(log, Event("mkdir", ok))
         /\ IF ok THEN dirs' = MkdirAll(fp) /\ entryDone
            ELSE UNCHANGED dirs /\ entryFailed("mkdir")
    /\ UNCHANGED <<kind, entries, files, fp>>
    /\ OtherFrame

\* untarFile: parentDir, _ := filepath.Split(fp); os.MkdirAll(parentDir, 0740)
untarFile_MkdirAll ==
    /\ kind = "tar" /\ epc = "mkparent"
    /\ \E ok \in Outcomes(MkdirAllMustFail(SplitDir(fp))) :
         /\ log' = Append(log, Event("mkdir", ok))
         /\ UNCHANGED rootdir
         /\ IF ok THEN /\ dirs' = MkdirAll(SplitDir(fp))
                       /\ epc' = "create"
                       /\ UNCHANGED <<open, idx, eret, eerr>>
            ELSE UNCHANGED dirs /\ entryFailed("mkdir")
    /\ UNCHANGED <<kind, entries, files, fp>>
    /\ OtherFrame

\* file, err := os.Create(fp)
untarFile_Create ==
    /\ kind = "tar" /\ epc = "create"
    /\ \E ok \in Outcomes(CreateMustFail(fp)) :
         /\ log' = Append(log, Event("create", ok))
         /\ UNCHANGED rootdir
         /\ IF ok THEN /\ files' = (fp :> NewFile) @@ files
                       /\ open' = open \cup {[e |-> idx, h |-> "file"]}
                       /\ epc' = "chmod"
                       /\ UNCHANGED <<idx, eret, eerr>>
            ELSE UNCHANGED files /\ entryFailed("create")
    /\ UNCHANGED <<kind, entries, dirs, fp>>
    /\ OtherFrame

\* file.Chmod(os.FileMode(hdr.Mode)): a failure is logged
untarFile_Chmod ==
    /\ kind = "tar" /\ epc = "chmod"
    /\ \E ok \in BOOLEAN :
         /\ log' = Append(log, Event("chmod", ok))
         /\ files' = IF ok THEN [files EXCEPT ![fp].mode = "entry"] ELSE files
    /\ epc' = "chtimes"
    /\ UNCHANGED <<kind, entries, idx, dirs, open, rootdir, fp, eret, eerr>>
    /\ OtherFrame

\* os.Chtimes(file.Name(), time.Now(), hdr.ModTime): a failure is logged
untarFile_Chtimes ==
    /\ kind = "tar" /\ epc = "chtimes"
    /\ \E ok \in BOOLEAN :
         /\ log' = Append(log, Event("chtimes", ok))
         /\ files' = IF ok THEN [files EXCEPT ![fp].mtime = "entry"] ELSE files
    /\ epc' = "copy"
    /\ UNCHANGED <<kind, entries, idx, dirs, open, rootdir, fp, eret, eerr>>
    /\ OtherFrame

\* io.Copy(file, tr), then return
untarFile_Copy ==
    /\ kind = "tar" /\ epc = "copy"
    /\ \E ok \in BOOLEAN :
         /\ log' = Append(log, Event("copy", ok))
         /\ UNCHANGED rootdir
         /\ files' = [files EXCEPT ![fp].body = IF ok THEN "full" ELSE "partial",
                                   ![fp].mtime = "now"]
         /\ IF ok THEN entryDone ELSE entryFailed("copy")
    /\ UNCHANGED <<kind, entries, dirs, fp>>
    /\ OtherFrame

ExtractNext ==
    \/ Unzip_NewReader \/ unpackZip_Return \/ unzipFile_Dir \/ unzipFile_Open
    \/ unzipFile_MkdirAll \/ unzipFile_Create \/ unzipFile_Chmod \/ unzipFile_Chtimes
    \/ unzipFile_CopyN
    \/ Untar_MkdirAll \/ Untar_Return \/ Untar_Next \/ Untar_Dir
    \/ untarFile_MkdirAll \/ untarFile_Create \/ untarFile_Chmod \/ untarFile_Chtimes
    \/ untarFile_Copy

\* ------------------------------------------------------------------ sanitize run
Sanitize ==
    /\ spc = "start"
    /\ sout' = sanitize(sname)
    /\ spc' = "sanitized"
    /\ UNCHANGED <<goos, sname, sout2, sjoined>>
    /\ UNCHANGED <<sniffVars, unpackVars, extVars>>

JoinSanitized ==
    /\ spc = "sanitized"
    /\ sjoined' = Join(destPath, sout)
    /\ spc' = "joined"
    /\ UNCHANGED <<goos, sname, sout, sout2>>
    /\ UNCHANGED <<sniffVars, unpackVars, extVars>>

SanitizeAgain ==
    /\ spc = "joined"
    /\ sout2' = sanitize(sout)
    /\ spc' = "done"
    /\ UNCHANGED <<goos, sname, sout, sjoined>>
    /\ UNCHANGED <<sniffVars, unpackVars, extVars>>

SanNext == Sanitize \/ JoinSanitized \/ SanitizeAgain

\* ------------------------------------------------------------------ specifications
\* sanitize applied to every name of the bounded set
SanInit ==
    /\ goos \in OS
    /\ sname \in Names
    /\ sout = None /\ sout2 = None /\ sjoined = None
    /\ spc = "start"
    /\ koff = 0 /\ krd = <<>> /\ ksniffs = <<>> /\ kread = <<>> /\ kpc = "idle"
    /\ input = <<>> /\ r = <<>> /\ ftype = "" /\ drd = <<>> /\ decoders = <<>>
    /\ sniffed = <<>> /\ called = <<>> /\ outFile = <<>>
    /\ uret = <<>> /\ uerr = "nil" /\ upc = "idle"
    /\ kind = "none" /\ entries = <<>> /\ idx = 0 /\ epc = "idle"
    /\ dirs = {} /\ files = <<>> /\ open = {} /\ rootdir = <<>> /\ fp = <<>>
    /\ eret = <<>> /\ eerr = "nil" /\ log = <<>>

SpecSanitize == SanInit /\ [][SanNext]_vars

\* magicNumber applied to a fresh reader over every stream of the bounded set
SniffInit ==
    /\ goos = "linux"
    /\ koff \in {0, 257}
    /\ krd \in {<<NewReader(s)>> : s \in Streams}
    /\ ksniffs = <<>> /\ kread = <<>>
    /\ kpc = "start"
    /\ sname = None /\ sout = None /\ sout2 = None /\ sjoined = None /\ spc = "idle"
    /\ input = <<>> /\ r = <<>> /\ ftype = "" /\ drd = <<>> /\ decoders = <<>>
    /\ sniffed = <<>> /\ called = <<>> /\ outFile = <<>>
    /\ uret = <<>> /\ uerr = "nil" /\ upc = "idle"
    /\ kind = "none" /\ entries = <<>> /\ idx = 0 /\ epc = "idle"
    /\ dirs = {} /\ files = <<>> /\ open = {} /\ rootdir = <<>> /\ fp = <<>>
    /\ eret = <<>> /\ eerr = "nil" /\ log = <<>>

SpecSniff == SniffInit /\ [][SniffNext]_vars

\* UnpackStream applied to every stream of the bounded set
UnpackInit ==
    /\ goos \in OS
    /\ input \in {<<s>> : s \in Streams}
    /\ r = <<NewReader(input[1])>>
    /\ ftype = "" /\ drd = <<>> /\ decoders = <<>>
    /\ sniffed = <<>> /\ called = <<>> /\ outFile = <<>>
    /\ uret = <<>> /\ uerr = "nil" /\ upc = "start"
    /\ sname = None /\ sout = None /\ sout2 = None /\ sjoined = None /\ spc = "idle"
    /\ koff = 0 /\ krd = <<>> /\ ksniffs = <<>> /\ kread = <<>> /\ kpc = "idle"
    /\ kind = "none" /\ entries = <<>> /\ idx = 0 /\ epc = "idle"
    /\ dirs = {} /\ files = <<>> /\ open = {} /\ rootdir = <<>> /\ fp = <<>>
    /\ eret = <<>> /\ eerr = "nil" /\ log = <<>>

SpecUnpack == UnpackInit /\ [][UnpackNext]_vars

\* Unzip and Untar applied to every archive of the bounded set
ExtractInit ==
    /\ goos \in OS
    /\ kind \in {"zip", "tar"}
    /\ entries \in Archives
    /\ idx = 1 /\ epc = "start"
    /\ dirs = InitialDirs /\ files = <<>> /\ open = {}
    /\ rootdir = <<>> /\ fp = <<>>
    /\ eret = <<>> /\ eerr = "nil" /\ log = <<>>
    /\ sname = None /\ sout = None /\ sout2 = None /\ sjoined = None /\ spc = "idle"
    /\ koff = 0 /\ krd = <<>> /\ ksniffs = <<>> /\ kread = <<>> /\ kpc = "idle"
    /\ input = <<>> /\ r = <<>> /\ ftype = "" /\ drd = <<>> /\ decoders = <<>>
    /\ sniffed = <<>> /\ called = <<>> /\ outFile = <<>>
    /\ uret = <<>> /\ uerr = "nil" /\ upc = "idle"

SpecExtract == ExtractInit /\ [][ExtractNext]_vars

\* ------------------------------------------------------------------ properties
\* the stream UnpackStream sniffs at offset 257: the input, or what the one
\* decoder wrapped around it yields
Payload ==
    IF decoders = <<>> THEN input[1]
    ELSE IF input[1].hdrok THEN Decoded(input[1]) ELSE BadStream

IsZipBytes(s) == ~s.bad /\ s.len >= 6 /\ SubSeq(s.w0, 1, 4) = magicZIP

IsTarBytes(s) == ~s.bad /\ s.len >= 263 /\ SubSeq(s.w257, 1, 5) = magicTAR

CompressionOf(s) ==
    IF s.len < 6 THEN ""
    ELSE IF SubSeq(s.w0, 1, 2) = magicGZ THEN "gzip"
    ELSE IF SubSeq(s.w0, 1, 2) = magicBZIP THEN "bzip"
    ELSE IF s.w0 = magicXZ THEN "xz"
    ELSE ""

\* C4: UnpackStream is a fixed pipeline.  It sniffs the input at offset 0; on
\* the zip tag it calls the ZIP extractor on the input and never sniffs again;
\* on gzip, bzip2 or xz it wraps exactly one decoder, the matching one; in every
\* non-zip case it sniffs once more, at offset 257 of the (possibly decoded)
\* stream, and when that sniff returns a tag it calls the TAR extractor iff the
\* tag is tar and otherwise creates the fallback file.  So a .zip, a .tar and a
\* .tar under one compression layer reach their extractor, and neither a second
\* compression layer nor a ZIP under a compression layer is decoded.
C4_DispatchPipeline ==
    /\ Len(sniffed) <= 2 /\ Len(decoders) <= 1 /\ Len(called) <= 1
    /\ Len(sniffed) >= 1 => sniffed[1].offset = 0 /\ sniffed[1].src = input[1]
    /\ decoders # <<>> =>
         /\ sniffed[1].err = "nil"
         /\ decoders[1] = sniffed[1].ftype
         /\ decoders[1] \in {"gzip", "bzip", "xz"}
    /\ Len(sniffed) = 2 =>
         /\ sniffed[1].err = "nil" /\ sniffed[1].ftype # "zip"
         /\ sniffed[2].offset = 257 /\ sniffed[2].src = Payload
         /\ (sniffed[1].ftype \in {"gzip", "bzip", "xz"}) <=> (decoders # <<>>)
    /\ \A i \in 1..Len(called) :
         /\ called[i].fn = "UnzipStream" =>
              /\ Len(sniffed) = 1 /\ sniffed[1].ftype = "zip" /\ decoders = <<>>
              /\ called[i].rd = NewReader(input[1])
         /\ called[i].fn = "Untar" =>
              /\ Len(sniffed) = 2 /\ sniffed[2].err = "nil" /\ sniffed[2].ftype = "tar"
              /\ called[i].rd = NewReader(Payload)
    /\ outFile # <<>> =>
         /\ Len(sniffed) = 2 /\ sniffed[2].err = "nil" /\ sniffed[2].ftype # "tar"
         /\ called = <<>>
    /\ upc = "done" =>
         /\ (sniffed[1].err = "nil" /\ sniffed[1].ftype = "zip") =>
              (Len(called) = 1 /\ called[1].fn = "UnzipStream")
         /\ (sniffed[1].err = "nil" /\ sniffed[1].ftype # "zip") =>
              (Len(sniffed) = 2 \/ uerr = "header")
         /\ (Len(sniffed) = 2 /\ sniffed[2].err = "nil") =>
              IF sniffed[2].ftype = "tar"
              THEN Len(called) = 1 /\ called[1].fn = "Untar"
              ELSE outFile # <<>> \/ uerr = "io"
         /\ IsZipBytes(input[1]) => (Len(called) = 1 /\ called[1].fn = "UnzipStream")
         /\ (~IsZipBytes(input[1]) /\ CompressionOf(input[1]) = "" /\ IsTarBytes(input[1])) =>
              (called = <<[fn |-> "Untar", rd |-> NewReader(input[1])]>> /\ decoders = <<>>)
         /\ (CompressionOf(input[1]) # "" /\ input[1].hdrok /\ IsTarBytes(Decoded(input[1]))) =>
              /\ called = <<[fn |-> "Untar", rd |-> NewReader(Decoded(input[1]))]>>
              /\ decoders = <<CompressionOf(input[1])>>

\* a .tar.gz went through one gzip decoder into the TAR extractor
C4_Witness ==
    /\ upc = "done" /\ decoders = <<"gzip">>
    /\ Len(called) = 1 /\ called[1].fn = "Untar"
    /\ Len(sniffed) = 2

\* C5: magicNumber does not advance the reader: after a sniff the reader is
\* where it was, reading it to the end returns the whole stream, and a second
\* sniff at the same offset returns the same tag and the same error.
C5_SniffDoesNotAdvance ==
    /\ kpc \in {"sniffed", "resniffed"} => krd[1].pos = 0
    /\ kread # <<>> => kread[1].from = 0
    /\ Len(ksniffs) = 2 => ksniffs[2] = ksniffs[1]

\* a TAR stream sniffed twice at offset 257 and then read to its end
C5_Witness ==
    /\ kpc = "read" /\ koff = 257 /\ Len(ksniffs) = 2
    /\ ksniffs[1].ftype = "tar" /\ ksniffs[1].err = "nil"
    /\ kread # <<>>

\* C6: whenever UnpackStream ends without having recognized a ZIP or a TAR
\* archive, and neither the decoder nor the file system failed, it has
\* returned destPath with no error and the fallback file holds the whole
\* (possibly decoded) stream.
C6_UniversalFallback ==
    (upc = "done" /\ called = <<>> /\ uerr \notin {"io", "header", "corrupt"}) =>
        /\ uerr = "nil" /\ uret = destPath
        /\ outFile # <<>> /\ outFile[1].whole
        /\ outFile[1].data = <<[src |-> Payload, from |-> 0]>>

\* the part of C6 that the code satisfies: a stream of at least 263
\* (decoded) bytes that is no archive lands in the fallback file
FallbackWhenLongEnough ==
    (upc = "done" /\ called = <<>> /\ uerr = "nil") =>
        /\ uret = destPath /\ Payload.len >= 263
        /\ outFile # <<>> /\ outFile[1].whole
        /\ outFile[1].data = <<[src |-> Payload, from |-> 0]>>

\* the paths the extractor created
Created == (dirs \ InitialDirs) \cup DOMAIN files

\* C1: every file and directory an extractor creates lies inside the
\* destination root, at destPath joined with the sanitized entry name.
C1_ExtractionConfined ==
    \A p \in Created :
        /\ Within(destPath, p)
        /\ \E i \in 1..Len(entries) :
              p \in AncestorsAndSelf(Join(destPath, sanitize(entries[i].name)))

RECURSIVE firstDir(_, _)
firstDir(es, i) ==
    IF i > Len(es) THEN destPath
    ELSE IF /\ es[i].name # paxGlobalHeader /\ es[i].isDir
            /\ Join(destPath, sanitize(es[i].name)) # destPath
         THEN Join(destPath, sanitize(es[i].name))
         ELSE firstDir(es, i + 1)

\* the directory entries that sit directly under the destination root
TopLevelDirs ==
    {Join(destPath, sanitize(entries[i].name)) :
        i \in {j \in 1..Len(entries) :
                 /\ entries[j].name # paxGlobalHeader /\ entries[j].isDir
                 /\ Dir(Join(destPath, sanitize(entries[j].name))) = destPath
                 /\ Join(destPath, sanitize(entries[j].name)) # destPath}}

DirEntries ==
    {i \in 1..Len(entries) : entries[i].name # paxGlobalHeader /\ entries[i].isDir}

C8_FailurePolicy ==
    [][ /\ eerr = "nil"
        /\ (eerr' # "nil") =>
              /\ epc' = "done" /\ idx' = idx
              /\ dirs' = dirs
              /\ \A p \in DOMAIN files :
                    p \in DOMAIN files' /\ (p # fp => files'[p] = files[p])
              /\ (kind = "tar" /\ epc # "start") => eret' = rootdir'
        /\ (log' # log) =>
              \A i \in 1..Len(log) :
                 ~(log[i].e = log'[Len(log')].e /\ log[i].op = log'[Len(log')].op)
      ]_extVars

\* the second entry of a TAR archive failed after the first was written
C8_Witness ==
    /\ kind = "tar" /\ epc = "done" /\ eerr = "copy" /\ idx = 2
    /\ \E p \in DOMAIN files : p # fp /\ files[p].body = "full"
    /\ eret = rootdir

\* C9: an extractor holds at most two handles, all of the current entry; none
\* is open between two entries or when the call has returned.
C9_NoHandleAccumulation ==
    /\ Cardinality(open) <= 2
    /\ \A h \in open : h.e = idx
    /\ epc \in {"start", "next", "done"} => open = {}

\* a ZIP extraction returned an error from the copy of its second entry
C9_Witness ==
    /\ kind = "zip" /\ epc = "done" /\ eerr = "copy" /\ idx = 2
    /\ \E i \in 1..Len(log) : log[i].e = 1 /\ log[i].op = "copy" /\ log[i].ok
    /\ open = {}

\* C10: the permission bits and the modification time of a regular entry are
\* applied only after its payload has been copied.
C10_MetadataAfterCopy ==
    \A i \in 1..Len(log) :
        log[i].op \in {"chmod", "chtimes"} =>
            \E j \in 1..(i - 1) :
                log[j].e = log[i].e /\ log[j].op = "copy" /\ log[j].ok

\* the part of C10 that the code satisfies: parent, create, then copy, and a
\* failed Chmod or Chtimes never becomes the call's error
MetadataFailureNotFatal ==
    /\ eerr \notin {"chmod", "chtimes"}
    /\ \A i \in 1..Len(log) :
          log[i].op = "copy" =>
              \E j \in 1..(i - 1) : log[j].e = log[i].e /\ log[j].op = "create" /\ log[j].ok

\* what the order costs: the time set by Chtimes does not survive the copy
ModTimeKept ==
    \A p \in DOMAIN files : files[p].body = "full" => files[p].mtime = "entry"

\* -- validation of the path model against TestSanitize (src/unzipit.go:647)
TestSanitizeTable ==
    goos = "linux" =>
      /\ sanitize(<<".", ".", "/", ".", ".", "/", ".", ".", "/", ".", "/", "e", "/", "p">>) = <<"e", "/", "p">>
      /\ sanitize(<<".", "/", "e", "/", "p">>) = <<"e", "/", "p">>
      /\ sanitize(<<".", "/", ".", "/", ".", "/", "e", "/", "p">>) = <<"e", "/", "p">>
      /\ sanitize(<<"n", "/", "b", "/", ".", ".", "/", "f">>) = <<"n", "/", "f">>
      /\ sanitize(<<"a", ".", ".", "/", "d">>) = <<"a", ".", ".", "/", "d">>
      /\ sanitize(<<"a", "/", "b", "/", "c", "/", ".", ".", "/", "d">>) = <<"a", "/", "b", "/", "d">>
      /\ sanitize(<<"a", "/", ".", ".", "/", ".", ".", "/", "c">>) = <<"c">>
      /\ sanitize(<<".", ".", ".", ".", ".", "/", "e", "/", "p">>) = <<".", ".", ".", ".", ".", "/", "e", "/", "p">>

\* C2: for every name, sanitize(name) never begins with ../ and joining the
\* destination root with it yields the root itself or a path below the root.
C2_SanitizeJoinsInsideRoot ==
    spc \in {"joined", "done"} =>
        /\ ~HasPrefix(sout, <<".", ".", "/">>)
        /\ Within(destPath, sjoined)

\* C3: sanitize is idempotent, with or without drive-letter stripping.
C3_SanitizeIdempotent ==
    spc = "done" => sout2 = sout

\* the part of C3 that the code satisfies: idempotent where no volume prefix is stripped
SanitizeIdempotentNoVolume ==
    (spc = "done" /\ goos # "windows") => sout2 = sout

\* the part of C2 that the code satisfies
SanitizeNeverDotDotSlash ==
    spc \in {"joined", "done"} => ~HasPrefix(sout, <<".", ".", "/">>)
====
